---- MODULE Spec2Model ----
(***************************************************************************)
(* Service-tracking backend (src/backend/server.py): a FastAPI application *)
(* over one MongoDB collection, db.services.  The model keeps the          *)
(* collection, the wall clock read by datetime.utcnow(), and the last      *)
(* request with its response.  Every route handler is one action.          *)
(*                                                                         *)
(* Representation of values                                                *)
(*   None      <<>>            Optional value v      <<v>>                 *)
(*   date      [y, m, d]       datetime              [date, us]            *)
(*   str(uuid) a non-empty tuple; the empty string is <<>>                 *)
(*   dict      a function whose DOMAIN is the set of keys                  *)
(*   JSON      an object is a function on its keys, whose values are       *)
(*             Null (<<>>) or Json(v) (<<v>>)                              *)
(***************************************************************************)
EXTENDS Integers, Sequences, FiniteSets, TLC

VARIABLES
    storage,    \* db.services: the documents, in insertion order
    now,        \* microseconds of the current day on the server's clock
    req,        \* the last request answered
    resp,       \* the response to it
    inflight    \* the handlers suspended at an await between two store queries

vars == <<storage, now, req, resp, inflight>>

----------------------------------------------------------------------------
(* Bounds of the model *)

MaxServices == 2      \* documents inserted in one run of Spec
MaxClock == 1500      \* the clock reading after which no handler of Spec stamps a time
MaxTypes == 11        \* documents inserted in one run of SpecDash
MaxInflight == 2      \* handlers suspended at the same time in one run of SpecConc

----------------------------------------------------------------------------
(* Values *)

None == <<>>
Some(v) == <<v>>
Null == <<>>
Json(v) == <<v>>

Date(y, m, d) == [y |-> y, m |-> m, d |-> d]

Today == Date(2025, 6, 1)

\* datetime.combine(value, datetime.min.time())
DateToDatetime(d) == [date |-> d, us |-> 0]

\* pydantic's parsing of a stored datetime into a date field
DatetimeToDate(dt) == dt.date

\* datetime.utcnow() when the clock shows t
utcnow(t) == [date |-> Today, us |-> t]

\* The clock when the next handler reads it: handlers run one after another,
\* half a millisecond apart.
Later(t) == t + 500

\* A datetime as the document store keeps it: BSON datetimes count
\* milliseconds, the driver drops the microseconds below.
BsonDatetime(dt) == [dt EXCEPT !.us = (dt.us \div 1000) * 1000]

\* str(uuid.uuid4()): the k-th identifier drawn; distinct draws are distinct.
Uuid4(k) == <<k>>

----------------------------------------------------------------------------
(* Pydantic models *)

RequiredFields == {"name", "service_type", "provider", "creation_date", "annual_fee"}
OptionalFields == {"last_renewal_date", "next_renewal_date", "currency", "status", "notes"}
BodyFields == RequiredFields \cup OptionalFields
DateFields == {"creation_date", "last_renewal_date", "next_renewal_date"}
NullableFields == {"last_renewal_date", "next_renewal_date", "notes"}
ServiceFields == BodyFields \cup {"id", "is_deleted", "created_at", "updated_at"}

\* The default of a field a ServiceCreate payload omits
FieldDefault(k) ==
    CASE k = "currency" -> "TRY"
      [] k = "status" -> "active"
      [] OTHER -> None

\* ServiceCreate(**payload).dict(): payload is the JSON object of the request.
\* Keys the model does not declare are ignored; Optional fields hold None or
\* Some(v), the others their value.
ServiceCreate(payload) ==
    [k \in BodyFields |->
        IF k \in DOMAIN payload
        THEN (IF k \in NullableFields THEN payload[k] ELSE payload[k][1])
        ELSE FieldDefault(k)]

\* Request validation of ServiceCreate: the required fields are present, and
\* only an Optional field may be null.
ValidCreate(payload) ==
    /\ RequiredFields \subseteq DOMAIN payload
    /\ \A k \in DOMAIN payload \cap BodyFields : payload[k] = Null => k \in NullableFields

\* Mutant: the model keeps the keys it does not declare (extra = "allow")
ServiceUpdateAllowExtra(payload) ==
    [k \in BodyFields \cup DOMAIN payload |-> IF k \in DOMAIN payload THEN payload[k] ELSE None]

\* ServiceUpdate(**payload).dict(): every declared field, None when the
\* payload omits it or gives null; keys the model does not declare are ignored.
ServiceUpdate(payload) ==
    [k \in BodyFields |-> IF k \in DOMAIN payload THEN payload[k] ELSE None]

\* Service(**service_dict): the identifier and both timestamps come from the
\* default factories, is_deleted from its default.  The two calls of
\* datetime.utcnow() fall in the same clock reading.
Service(service_dict, id, stamp) ==
    [k \in ServiceFields |->
        CASE k = "id" -> id
          [] k = "is_deleted" -> FALSE
          [] k \in {"created_at", "updated_at"} -> stamp
          [] OTHER -> service_dict[k]]

\* Service(**document): a stored document read back into the model; datetimes
\* in date fields are parsed back to dates.
ServiceFromDoc(doc) ==
    [k \in ServiceFields |->
        IF k \in DateFields
        THEN (IF k \in NullableFields
              THEN (IF doc[k] = None THEN None ELSE Some(DatetimeToDate(doc[k][1])))
              ELSE DatetimeToDate(doc[k]))
        ELSE doc[k]]

----------------------------------------------------------------------------
(* The document store: the queries the handlers issue on db.services *)

DatetimeFields == DateFields \cup {"created_at", "updated_at"}

\* The value the collection keeps for key k when the driver is handed v
StoredValue(k, v) ==
    LET b == IF k \in DatetimeFields THEN BsonDatetime(v) ELSE v
    IN  IF k \in NullableFields THEN Some(b) ELSE b

\* create_service: service_obj.dict() with its dates turned into datetimes,
\* as insert_one writes it
ServiceDataForDb(service_obj) ==
    [k \in ServiceFields |->
        IF k \in NullableFields
        THEN (IF service_obj[k] = None THEN None
              ELSE StoredValue(k, IF k \in DateFields
                                  THEN DateToDatetime(service_obj[k][1])
                                  ELSE service_obj[k][1]))
        ELSE StoredValue(k, IF k \in DateFields
                            THEN DateToDatetime(service_obj[k])
                            ELSE service_obj[k])]

\* db.services.insert_one(document)
InsertOne(coll, doc) == Append(coll, doc)

\* A filter document matches the documents that carry each of its values.
Matches(doc, filter) == \A k \in DOMAIN filter : doc[k] = filter[k]

\* The filter {"is_deleted": False}
NotDeleted == [is_deleted |-> FALSE]

Indexes(coll, filter) == {i \in 1..Len(coll) : Matches(coll[i], filter)}
First(S) == CHOOSE i \in S : \A j \in S : i <= j

\* cursor.to_list(length): at most length documents
ToList(docs, length) == SubSeq(docs, 1, IF Len(docs) < length THEN Len(docs) ELSE length)

\* db.services.find(filter)
Find(coll, filter) == SelectSeq(coll, LAMBDA doc : Matches(doc, filter))

\* db.services.find_one(filter): the first match, or None
FindOne(coll, filter) ==
    LET S == Indexes(coll, filter) IN IF S = {} THEN None ELSE Some(coll[First(S)])

\* {"$set": update} applied to one document
SetFields(doc, update) ==
    [k \in DOMAIN doc |-> IF k \in DOMAIN update THEN StoredValue(k, update[k]) ELSE doc[k]]

\* db.services.update_one(filter, {"$set": update}): the first match is
\* rewritten; the result carries matched_count.
UpdateOne(coll, filter, update) ==
    LET S == Indexes(coll, filter)
    IN  IF S = {}
        THEN [matched_count |-> 0, coll |-> coll]
        ELSE [matched_count |-> 1,
              coll |-> [coll EXCEPT ![First(S)] = SetFields(coll[First(S)], update)]]

\* db.services.count_documents(filter)
CountDocuments(coll, filter) == Cardinality(Indexes(coll, filter))

----------------------------------------------------------------------------
(* Authentication *)

Token == "authenticated"
FixedEmail == "bilgi@gallaxdesign.com"
FixedPassword == "gallax11"

\* security = HTTPBearer() followed by verify_token: the statuses with which
\* the dependency may reject a request whose bearer credential is `bearer`
\* (None when the Authorization header is missing or carries no Bearer
\* credential); empty when the request is let through.  HTTPBearer answers the
\* missing credential itself, before verify_token runs: with 403 in the
\* FastAPI releases that precede its switch to 401, with 401 in the later
\* ones.  The repository pins no release.
AuthRejections(bearer) ==
    IF bearer = None THEN {401, 403}
    ELSE IF bearer[1] # Token THEN {401}
    ELSE {}

Detail(text) == [detail |-> text]
Reply(status, body, coll, t) == [status |-> status, body |-> body, coll |-> coll, now |-> t]

\* POST /auth/login
LoginReply(user_data) ==
    IF user_data.email = FixedEmail /\ user_data.password = FixedPassword
    THEN [status |-> 200, body |-> [token |-> Token, message |-> "Login successful"]]
    ELSE [status |-> 401, body |-> Detail("Invalid credentials")]

----------------------------------------------------------------------------
(* Service routes: each handler as a function of the collection, its        *)
(* arguments and the clock, giving the response, the collection and the     *)
(* clock it leaves.                                                         *)

ListLength == 1000

\* GET /services
GetServices(coll, t) ==
    LET services == ToList(Find(coll, NotDeleted), ListLength)
    IN  Reply(200, [i \in 1..Len(services) |-> ServiceFromDoc(services[i])], coll, t)

\* POST /services
CreateService(coll, payload, t) ==
    IF ~ValidCreate(payload)
    THEN Reply(422, Detail("field required"), coll, t)
    ELSE LET service_obj == Service(ServiceCreate(payload), Uuid4(Len(coll) + 1),
                                    utcnow(Later(t)))
         IN  Reply(200, service_obj, InsertOne(coll, ServiceDataForDb(service_obj)), Later(t))

\* Mutant: the filter without its is_deleted clause
LiveWithIdAnyState(service_id) == [id |-> service_id]

\* The filter {"id": service_id, "is_deleted": False}
LiveWithId(service_id) == [id |-> service_id, is_deleted |-> FALSE]

\* GET /services/{service_id}
GetService(coll, service_id, t) ==
    LET service == FindOne(coll, LiveWithId(service_id))
    IN  IF service = None
        THEN Reply(404, Detail("Service not found"), coll, t)
        ELSE Reply(200, ServiceFromDoc(service[1]), coll, t)

\* Mutant: the comprehension tests the value's truth, not "is not None"
UpdateDataTruthy(service_data, stamp) ==
    LET present == {k \in DOMAIN service_data :
                        /\ service_data[k] # None
                        /\ ~(k = "name" /\ service_data[k][1] = "")
                        /\ ~(k = "annual_fee" /\ service_data[k][1] = 0)}
    IN  [k \in present \cup {"updated_at"} |->
            IF k = "updated_at" THEN stamp
            ELSE IF k \in DateFields THEN DateToDatetime(service_data[k][1])
            ELSE service_data[k][1]]

\* update_service: the keys of the body that are not None, their dates
\* turned into datetimes, and updated_at
UpdateData(service_data, stamp) ==
    LET present == {k \in DOMAIN service_data : service_data[k] # None}
    IN  [k \in present \cup {"updated_at"} |->
            IF k = "updated_at" THEN stamp
            ELSE IF k \in DateFields THEN DateToDatetime(service_data[k][1])
            ELSE service_data[k][1]]

\* PUT /services/{service_id}
UpdateService(coll, service_id, payload, t) ==
    LET update_data == UpdateData(ServiceUpdate(payload), utcnow(Later(t)))
        result == UpdateOne(coll, LiveWithId(service_id), update_data)
        updated_service == FindOne(result.coll, [id |-> service_id])
    IN  IF result.matched_count = 0
        THEN Reply(404, Detail("Service not found"), coll, Later(t))
        ELSE IF updated_service = None
        THEN \* Service(**None) raises: the framework answers 500
             Reply(500, Detail("Internal Server Error"), result.coll, Later(t))
        ELSE Reply(200, ServiceFromDoc(updated_service[1]), result.coll, Later(t))

\* delete_service: the document of its $set
DeleteData(stamp) == [is_deleted |-> TRUE, updated_at |-> stamp]

\* Mutant: the filter of the soft delete names the identifier only
DeleteServiceAnyState(coll, service_id, t) ==
    LET result == UpdateOne(coll, [id |-> service_id],
                            DeleteData(utcnow(Later(t))))
    IN  IF result.matched_count = 0
        THEN Reply(404, Detail("Service not found"), coll, Later(t))
        ELSE Reply(200, [message |-> "Service deleted successfully"], result.coll, Later(t))

\* Mutant: the document is removed (delete_one) instead of flagged
DeleteServiceHard(coll, service_id, t) ==
    IF Indexes(coll, LiveWithId(service_id)) = {}
    THEN Reply(404, Detail("Service not found"), coll, Later(t))
    ELSE Reply(200, [message |-> "Service deleted successfully"],
               SelectSeq(coll, LAMBDA d : d.id # service_id), Later(t))

\* DELETE /services/{service_id}
DeleteService(coll, service_id, t) ==
    LET result == UpdateOne(coll, LiveWithId(service_id),
                            DeleteData(utcnow(Later(t))))
    IN  IF result.matched_count = 0
        THEN Reply(404, Detail("Service not found"), coll, Later(t))
        ELSE Reply(200, [message |-> "Service deleted successfully"], result.coll, Later(t))

----------------------------------------------------------------------------
(* Dashboard *)

\* The filter {"is_deleted": False, "status": "active"}
ActiveFilter == [is_deleted |-> FALSE, status |-> "active"]

RECURSIVE SumFees(_)
\* {"$sum": "$annual_fee"} over a list of documents
SumFees(docs) ==
    IF docs = <<>> THEN 0 ELSE Head(docs).annual_fee + SumFees(Tail(docs))

\* Mutant: the $match of the first pipeline without its status clause
TotalFeesResultAnyStatus(coll) ==
    LET matched == Find(coll, NotDeleted)
    IN  IF matched = <<>> THEN <<>>
        ELSE <<[_id |-> None, total_fees |-> SumFees(matched)]>>

\* The first pipeline: one group over all matching documents; no document
\* when nothing matches
TotalFeesResult(coll) ==
    LET matched == Find(coll, ActiveFilter)
    IN  IF matched = <<>> THEN <<>>
        ELSE <<[_id |-> None, total_fees |-> SumFees(matched)]>>

\* The second pipeline: one group for each service_type among the matching
\* documents
TypeGroups(coll) ==
    LET matched == Find(coll, ActiveFilter)
        types == {matched[i].service_type : i \in 1..Len(matched)}
    IN  {[_id |-> ty,
          count |-> Cardinality({i \in 1..Len(matched) : matched[i].service_type = ty})]
         : ty \in types}

TypeListLength == 10

\* aggregate(type_pipeline).to_list(10): $group emits its groups in no
\* specified order, the cursor hands over at most ten of them.
ServicesByType(coll) ==
    LET groups == TypeGroups(coll)
        n == IF Cardinality(groups) < TypeListLength
             THEN Cardinality(groups) ELSE TypeListLength
    IN  {G \in SUBSET groups : Cardinality(G) = n}

\* GET /services/stats/dashboard, for one outcome of the second pipeline
DashboardStats(coll, services_by_type) ==
    LET total_fees_result == ToList(TotalFeesResult(coll), 1)
    IN  [total_services |-> CountDocuments(coll, NotDeleted),
         active_services |-> CountDocuments(coll, ActiveFilter),
         total_annual_fees |-> IF total_fees_result # <<>>
                               THEN total_fees_result[1].total_fees ELSE 0,
         services_by_type |-> services_by_type]

----------------------------------------------------------------------------
(* Exports *)

\* value.strftime("%d.%m.%Y") if value else blank
Strftime(value, blank) ==
    IF value = None THEN blank ELSE <<value[1].date.d, ".", value[1].date.m, ".", value[1].date.y>>

StatusLabel(doc) == IF doc.status = "active" THEN "Aktif" ELSE "Pasif"

\* GET /services/export/excel: the rows of the sheet
ExcelRows(coll) ==
    LET services == ToList(Find(coll, NotDeleted), ListLength)
    IN  [i \in 1..Len(services) |->
            LET service == services[i]
            IN  <<service.name, service.service_type, service.provider,
                  service.annual_fee, service.currency,
                  Strftime(Some(service.creation_date), ""),
                  Strftime(service.last_renewal_date, ""),
                  Strftime(service.next_renewal_date, ""),
                  StatusLabel(service), service.notes>>]

\* GET /services/export/pdf: the rows of the table under its header
PdfRows(coll) ==
    LET services == ToList(Find(coll, NotDeleted), ListLength)
    IN  [i \in 1..Len(services) |->
            LET service == services[i]
            IN  <<service.name, service.service_type, service.provider,
                  <<"TL", service.annual_fee>>,
                  Strftime(service.next_renewal_date, "-"),
                  StatusLabel(service)>>]

----------------------------------------------------------------------------
(* Requests *)

Bearers == {None, Some(Token), Some("token")}

LoginBodies ==
    [email : {FixedEmail, "wrong@email.com"}, password : {FixedPassword, "wrongpass"}]

\* The identifiers a request path may name: those create_service hands out in
\* a run, and one it never does
Ids == {Uuid4(k) : k \in 1..(MaxServices + 1)}

\* The scenario of the specification: required fields only
PayloadTest ==
    [name |-> Json("Test"), service_type |-> Json("Domain"), provider |-> Json("P"),
     creation_date |-> Json(Date(2024, 1, 1)), annual_fee |-> Json(100)]

\* Every field given
PayloadFull ==
    [name |-> Json("Site"), service_type |-> Json("Hosting"), provider |-> Json("Q"),
     creation_date |-> Json(Date(2023, 5, 17)),
     last_renewal_date |-> Json(Date(2024, 5, 17)),
     next_renewal_date |-> Json(Date(2025, 5, 17)), annual_fee |-> Json(250),
     currency |-> Json("USD"), status |-> Json("inactive"), notes |-> Json("n")]

\* A status outside the enumeration and a negative fee; a null Optional field
PayloadOdd ==
    [name |-> Json("Test"), service_type |-> Json("Domain"), provider |-> Json("P"),
     creation_date |-> Json(Date(2024, 1, 1)), annual_fee |-> Json(-5),
     status |-> Json("paused"), notes |-> Null]

\* A required field missing
PayloadShort ==
    [name |-> Json("Test"), service_type |-> Json("Domain"), provider |-> Json("P"),
     creation_date |-> Json(Date(2024, 1, 1))]

CreatePayloads == {PayloadTest, PayloadFull, PayloadOdd, PayloadShort}

\* Bodies of PUT: empty; the scenario's; falsy values; a null beside a value;
\* values outside the data model; keys ServiceUpdate does not declare; every
\* field
UpdatePayloads ==
    { <<>>,
      [annual_fee |-> Json(150)],
      [name |-> Json(""), annual_fee |-> Json(0)],
      [status |-> Json("inactive"), next_renewal_date |-> Json(Date(2025, 5, 17)),
       notes |-> Null, currency |-> Null],
      [status |-> Json("paused"), annual_fee |-> Json(-5)],
      [id |-> Json(Uuid4(0)), is_deleted |-> Json(TRUE),
       created_at |-> Json(utcnow(0)), provider |-> Json("R")],
      PayloadFull }

Request(op, bearer, id, payload) ==
    [op |-> op, bearer |-> bearer, id |-> id, payload |-> payload]

----------------------------------------------------------------------------
(* Actions: one request, handled to its response *)

Init ==
    /\ storage = <<>>
    /\ now = 0
    /\ req = Request("none", None, None, None)
    /\ resp = [status |-> 0, body |-> None]
    /\ inflight = <<>>

\* A route behind Depends(verify_token).  The dependency is resolved before
\* the handler's own arguments: a rejected request is answered without its
\* path identifier or body being looked at, and req keeps op and bearer only.
\* The handler body runs, giving reply, when the dependency lets the request
\* through.
Protected(op, bearer, id, payload, reply) ==
    IF AuthRejections(bearer) = {}
    THEN /\ req' = Request(op, bearer, id, payload)
         /\ resp' = [status |-> reply.status, body |-> reply.body]
         /\ storage' = reply.coll
         /\ now' = reply.now
         /\ UNCHANGED inflight
    ELSE /\ req' = Request(op, bearer, None, None)
         /\ \E status \in AuthRejections(bearer) :
                resp' = [status |-> status,
                         body |-> Detail(IF bearer = None THEN "Not authenticated"
                                         ELSE "Invalid authentication")]
         /\ UNCHANGED <<storage, now, inflight>>

Login ==
    \E user_data \in LoginBodies :
        /\ req' = Request("login", None, None, user_data)
        /\ resp' = LoginReply(user_data)
        /\ UNCHANGED <<storage, now, inflight>>

ListReq ==
    \E bearer \in Bearers :
        Protected("get_services", bearer, None, None, GetServices(storage, now))

CreateReq(Payloads, maxDocs, maxClock) ==
    \E bearer \in Bearers, payload \in Payloads :
        /\ Len(storage) < maxDocs
        /\ now < maxClock
        /\ Protected("create_service", bearer, None, payload,
                     CreateService(storage, payload, now))

GetReq ==
    \E bearer \in Bearers, id \in Ids :
        Protected("get_service", bearer, id, None, GetService(storage, id, now))

UpdateReq ==
    \E bearer \in Bearers, id \in Ids, payload \in UpdatePayloads :
        /\ now < MaxClock
        /\ Protected("update_service", bearer, id, payload,
                     UpdateService(storage, id, payload, now))

DeleteReq ==
    \E bearer \in Bearers, id \in Ids :
        /\ now < MaxClock
        /\ Protected("delete_service", bearer, id, None, DeleteService(storage, id, now))

DashboardReq ==
    \E bearer \in Bearers, services_by_type \in ServicesByType(storage) :
        Protected("get_dashboard_stats", bearer, None, None,
                  Reply(200, DashboardStats(storage, services_by_type), storage, now))

ExcelReq ==
    \E bearer \in Bearers :
        Protected("export_services_excel", bearer, None, None,
                  Reply(200, ExcelRows(storage), storage, now))

PdfReq ==
    \E bearer \in Bearers :
        Protected("export_services_pdf", bearer, None, None,
                  Reply(200, PdfRows(storage), storage, now))

Create == CreateReq(CreatePayloads, MaxServices, MaxClock)

Next ==
    \/ Login
    \/ ListReq
    \/ Create
    \/ GetReq
    \/ UpdateReq
    \/ DeleteReq
    \/ DashboardReq
    \/ ExcelReq
    \/ PdfReq

Spec == Init /\ [][Next]_vars

----------------------------------------------------------------------------
(* The dashboard over many service types: service_type is any string the   *)
(* caller supplies.  Each request creates a service of the first type or   *)
(* of a type not seen before.                                              *)

TypeName(k) == <<"type", k>>

TypedPayloads ==
    {[PayloadTest EXCEPT !.service_type = Json(TypeName(k))] : k \in {1, Len(storage) + 1}}

CreateTyped == CreateReq(TypedPayloads, MaxTypes, Later(0) * (MaxTypes + MaxServices + 1))

NextDash ==
    \/ CreateTyped
    \/ DeleteReq
    \/ DashboardReq

SpecDash == Init /\ [][NextDash]_vars

----------------------------------------------------------------------------
(* Interleaved handlers.  Requests are served concurrently on one event     *)
(* loop: a handler runs without interruption up to an await of a store      *)
(* query, the store executes each query atomically, and between two         *)
(* queries of one handler the queries of other handlers may execute.        *)
(* create_service, get_service and delete_service issue one query and are   *)
(* the single steps of Spec; update_service issues two and                  *)
(* get_dashboard_stats four.                                                *)

\* update_service, first query: update_one under the filter
\* {"id": service_id, "is_deleted": False}
UpdateWrite(coll, service_id, payload, t) ==
    UpdateOne(coll, LiveWithId(service_id),
              UpdateData(ServiceUpdate(payload), utcnow(Later(t))))

\* update_service, second query: find_one({"id": service_id}) and the response
UpdateRead(coll, service_id, t) ==
    LET updated_service == FindOne(coll, [id |-> service_id])
    IN  IF updated_service = None
        THEN Reply(500, Detail("Internal Server Error"), coll, t)
        ELSE Reply(200, ServiceFromDoc(updated_service[1]), coll, t)

\* get_dashboard_stats, third query: the sum of the fees, 0 without a group
TotalAnnualFees(coll) ==
    LET total_fees_result == ToList(TotalFeesResult(coll), 1)
    IN  IF total_fees_result # <<>> THEN total_fees_result[1].total_fees ELSE 0

\* A suspended handler: its request, the query it awaits and its local
\* variables
Task(op, bearer, id, payload, awaits, locals) ==
    [op |-> op, bearer |-> bearer, id |-> id, payload |-> payload,
     awaits |-> awaits, locals |-> locals]

RemoveAt(tasks, i) == SubSeq(tasks, 1, i - 1) \o SubSeq(tasks, i + 1, Len(tasks))

\* A handler resumes after its last query and answers
Answer(i, reply) ==
    /\ req' = Request(inflight[i].op, inflight[i].bearer, inflight[i].id, inflight[i].payload)
    /\ resp' = [status |-> reply.status, body |-> reply.body]
    /\ inflight' = RemoveAt(inflight, i)
    /\ UNCHANGED <<storage, now>>

\* A handler resumes after a query and awaits the next one
Proceed(i, awaits, locals) ==
    /\ inflight' = [inflight EXCEPT ![i] = Task(@.op, @.bearer, @.id, @.payload,
                                                awaits, locals)]
    /\ UNCHANGED <<storage, now, req, resp>>

\* PUT /services/{service_id} up to the result of update_one
UpdateBegin ==
    \E bearer \in Bearers, id \in Ids, payload \in UpdatePayloads :
        /\ now < MaxClock
        /\ LET result == UpdateWrite(storage, id, payload, now)
           IN  IF AuthRejections(bearer) # {} \/ result.matched_count = 0
               THEN Protected("update_service", bearer, id, payload,
                              Reply(404, Detail("Service not found"), storage, Later(now)))
               ELSE /\ Len(inflight) < MaxInflight
                    /\ storage' = result.coll
                    /\ now' = Later(now)
                    /\ inflight' = Append(inflight,
                                          Task("update_service", bearer, id, payload,
                                               "find_one", None))
                    /\ UNCHANGED <<req, resp>>

\* PUT /services/{service_id} from find_one to the response
UpdateEnd ==
    \E i \in 1..Len(inflight) :
        /\ inflight[i].awaits = "find_one"
        /\ Answer(i, UpdateRead(storage, inflight[i].id, now))

\* GET /services/stats/dashboard up to the first count_documents
DashboardBegin ==
    \E bearer \in Bearers :
        IF AuthRejections(bearer) # {}
        THEN Protected("get_dashboard_stats", bearer, None, None,
                       Reply(401, None, storage, now))
        ELSE /\ Len(inflight) < MaxInflight
             /\ inflight' = Append(inflight,
                                   Task("get_dashboard_stats", bearer, None, None,
                                        "active_services",
                                        [total_services |-> CountDocuments(storage, NotDeleted)]))
             /\ UNCHANGED <<storage, now, req, resp>>

\* The second count_documents
DashboardActive ==
    \E i \in 1..Len(inflight) :
        /\ inflight[i].awaits = "active_services"
        /\ Proceed(i, "total_fees",
                   [total_services |-> inflight[i].locals.total_services,
                    active_services |-> CountDocuments(storage, ActiveFilter)])

\* The first pipeline
DashboardFees ==
    \E i \in 1..Len(inflight) :
        /\ inflight[i].awaits = "total_fees"
        /\ Proceed(i, "services_by_type",
                   [total_services |-> inflight[i].locals.total_services,
                    active_services |-> inflight[i].locals.active_services,
                    total_annual_fees |-> TotalAnnualFees(storage)])

\* The second pipeline and the response
DashboardEnd ==
    \E i \in 1..Len(inflight), services_by_type \in ServicesByType(storage) :
        /\ inflight[i].awaits = "services_by_type"
        /\ Answer(i, Reply(200,
                           [total_services |-> inflight[i].locals.total_services,
                            active_services |-> inflight[i].locals.active_services,
                            total_annual_fees |-> inflight[i].locals.total_annual_fees,
                            services_by_type |-> services_by_type],
                           storage, now))

NextConc ==
    \/ Create
    \/ DeleteReq
    \/ UpdateBegin
    \/ UpdateEnd
    \/ DashboardBegin
    \/ DashboardActive
    \/ DashboardFees
    \/ DashboardEnd

SpecConc == Init /\ [][NextConc]_vars

----------------------------------------------------------------------------
(* Properties *)

Authorized == req.bearer = Some(Token)

\* The positions of the documents that carry an identifier
WithId(coll, id) == {i \in 1..Len(coll) : coll[i].id = id}

\* A document with the identifier is in storage, get_service answers
\* NotFound for it and list_services does not show it.
Hidden(coll, id, t) ==
    /\ WithId(coll, id) # {}
    /\ GetService(coll, id, t).status = 404
    /\ \A j \in DOMAIN GetServices(coll, t).body : GetServices(coll, t).body[j].id # id

\* C1: once delete_service(id) has succeeded, in every later state
\* get_service(id) fails with NotFound, list_services() holds no record with
\* that identifier, and a document with that identifier is still in storage.
\* Stated step by step: a successful delete hides the identifier, and no step
\* unhides one.
C1_DeletedStaysHidden ==
    [][\A id \in Ids :
          (\/ Hidden(storage, id, now)
           \/ (req'.op = "delete_service" /\ req'.id = id /\ resp'.status = 200))
          => Hidden(storage', id, now')]_vars

\* A deleted identifier that a later authorized get_service does not find,
\* beside a second, live record
C1_Witness ==
    \E id \in Ids :
        /\ Hidden(storage, id, now)
        /\ req.op = "get_service" /\ req.id = id /\ Authorized /\ resp.status = 404
        /\ \E i \in 1..Len(storage) : ~storage[i].is_deleted

ProtectedOps ==
    {"get_services", "create_service", "get_service", "update_service", "delete_service",
     "get_dashboard_stats", "export_services_excel", "export_services_pdf"}

\* C2: a protected operation reaches the store only under the fixed token;
\* login returns the token exactly for the fixed pair; every other request
\* (no bearer, another bearer, another pair) fails with Unauthorized (401)
\* and leaves the store unchanged.
C2_OnlyTheTokenOpens ==
    [][/\ req'.op = "login" =>
            /\ resp'.status = 200 <=> (/\ req'.payload.email = FixedEmail
                                      /\ req'.payload.password = FixedPassword)
            /\ resp'.status = 200 => resp'.body.token = Token
            /\ resp'.status # 200 => (resp'.status = 401 /\ storage' = storage)
       /\ (req'.op \in ProtectedOps /\ req'.bearer # Some(Token)) =>
            (resp'.status = 401 /\ storage' = storage)]_vars

\* The fields a body gives a value other than null
Supplied(payload) == {k \in DOMAIN payload \cap BodyFields : payload[k] # Null}

\* C3: a successful update_service(id, body) of a live record sets exactly
\* the fields present and non-null in the body to the supplied values (as the
\* record reads back), stamps updated_at with the time of the request, and
\* leaves every other field of the record and every other record unchanged.
C3_UpdateSetsExactlySupplied ==
    [][(req'.op = "update_service" /\ resp'.status = 200) =>
          \E i \in 1..Len(storage) :
              /\ storage[i].id = req'.id /\ ~storage[i].is_deleted
              /\ Len(storage') = Len(storage)
              /\ \A j \in (1..Len(storage)) \ {i} : storage'[j] = storage[j]
              /\ \A k \in ServiceFields :
                    IF k \in Supplied(req'.payload)
                    THEN ServiceFromDoc(storage'[i])[k] =
                            (IF k \in NullableFields THEN req'.payload[k]
                             ELSE req'.payload[k][1])
                    ELSE IF k = "updated_at"
                    THEN storage'[i][k] = [date |-> Today, us |-> (now' \div 1000) * 1000]
                    ELSE storage'[i][k] = storage[i][k]]_vars

\* A successful update of one of two records whose body gives a value and a
\* null
C3_Witness ==
    /\ req.op = "update_service" /\ resp.status = 200
    /\ Len(storage) = 2
    /\ Supplied(req.payload) # {}
    /\ \E k \in DOMAIN req.payload : req.payload[k] = Null

\* A successful update with the empty body
C3_WitnessEmptyBody ==
    req.op = "update_service" /\ resp.status = 200 /\ req.payload = <<>>

\* C4: update_service and delete_service on an identifier that is absent
\* from storage or already soft-deleted fail with NotFound and leave the
\* whole store unchanged.
C4_NotFoundLeavesStore ==
    [][(/\ req'.op \in {"update_service", "delete_service"}
        /\ req'.bearer = Some(Token)
        /\ \A i \in WithId(storage, req'.id) : storage[i].is_deleted)
       => (resp'.status = 404 /\ storage' = storage)]_vars

\* A second delete_service on a deleted identifier, answered NotFound
C4_Witness ==
    /\ req.op = "delete_service" /\ Authorized /\ resp.status = 404
    /\ \E i \in WithId(storage, req.id) : storage[i].is_deleted

\* C5: in every step the identifiers in storage stay, a deleted record stays
\* deleted, and a record becomes deleted only by delete_service on it.
C5_SoftDeleteOneWay ==
    [][\A i \in 1..Len(storage) :
          /\ WithId(storage', storage[i].id) # {}
          /\ \A j \in WithId(storage', storage[i].id) :
                /\ storage[i].is_deleted => storage'[j].is_deleted
                /\ (~storage[i].is_deleted /\ storage'[j].is_deleted) =>
                      (req'.op = "delete_service" /\ req'.id = storage[i].id)]_vars

\* A record created after another was deleted, the deleted one still there
C5_Witness ==
    /\ req.op = "create_service" /\ resp.status = 200
    /\ Len(storage) = 2
    /\ \E i \in 1..Len(storage) : storage[i].is_deleted

\* C6: every stored record has status active or inactive and a non-negative
\* annual_fee.
C6_ValueConstraints ==
    \A i \in 1..Len(storage) :
        /\ storage[i].status \in {"active", "inactive"}
        /\ storage[i].annual_fee >= 0

RECURSIVE SumOver(_, _)
\* The sum of f over the finite set S
SumOver(S, f) ==
    IF S = {} THEN 0
    ELSE LET x == CHOOSE y \in S : TRUE IN f[x] + SumOver(S \ {x}, f)

\* The positions of the active, non-deleted records
ActiveLive(coll) ==
    {i \in 1..Len(coll) : coll[i].is_deleted = FALSE /\ coll[i].status = "active"}

\* C7: dashboard_stats() returns in services_by_type exactly one group for
\* each service_type among the active, non-deleted records, each with the
\* number of such records of that type, the counts summing to
\* active_services, for any number of distinct service_type values.
C7_OneGroupPerType ==
    (req.op = "get_dashboard_stats" /\ resp.status = 200) =>
        LET groups == resp.body.services_by_type
            types == {storage[i].service_type : i \in ActiveLive(storage)}
        IN  /\ {g._id : g \in groups} = types
            /\ Cardinality(groups) = Cardinality(types)
            /\ \A g \in groups :
                  g.count = Cardinality({i \in ActiveLive(storage) :
                                            storage[i].service_type = g._id})
            /\ SumOver(groups, [g \in groups |-> g.count]) = resp.body.active_services

\* C8: dashboard_stats() returns total_annual_fees equal to the sum of
\* annual_fee over exactly the records with is_deleted = false and
\* status = active, 0 when there are none.
C8_TotalFeesOverActiveLive ==
    (req.op = "get_dashboard_stats" /\ resp.status = 200) =>
        resp.body.total_annual_fees =
            SumOver(ActiveLive(storage), [i \in ActiveLive(storage) |-> storage[i].annual_fee])

\* Dashboard figures over an active record and one that is inactive or
\* deleted, both with a fee
C8_Witness ==
    /\ req.op = "get_dashboard_stats" /\ resp.status = 200
    /\ resp.body.total_annual_fees > 0
    /\ \E i \in 1..Len(storage) :
          /\ i \notin ActiveLive(storage)
          /\ storage[i].annual_fee > 0

\* Dashboard figures when no record is active and live
C8_WitnessNone ==
    /\ req.op = "get_dashboard_stats" /\ resp.status = 200
    /\ Len(storage) > 0 /\ ActiveLive(storage) = {}

\* C9: the identifier and created_at of every stored record stay as
\* create_service stored them through every update_service and
\* delete_service, and no update body sets is_deleted.
C9_IdAndCreatedAtFixed ==
    [][/\ Len(storage') >= Len(storage)
       /\ \A i \in 1..Len(storage) :
             /\ storage'[i].id = storage[i].id
             /\ storage'[i].created_at = storage[i].created_at
             /\ req'.op = "update_service" => storage'[i].is_deleted = storage[i].is_deleted]_vars

\* A successful update whose body names id, is_deleted and created_at
C9_Witness ==
    /\ req.op = "update_service" /\ resp.status = 200
    /\ {"id", "is_deleted", "created_at"} \subseteq DOMAIN req.payload

\* C10: a successful create_service returns a record with a non-empty
\* identifier that no other stored record carries, is_deleted = false and the
\* defaults in the optional fields the payload omits; get_service on that
\* identifier, before any other mutation, returns the same field values.
C10_CreateThenGetSame ==
    (req.op = "create_service" /\ resp.status = 200) =>
        /\ resp.body.id # <<>>
        /\ Cardinality(WithId(storage, resp.body.id)) = 1
        /\ resp.body.is_deleted = FALSE
        /\ \A k \in OptionalFields \ DOMAIN req.payload : resp.body[k] = FieldDefault(k)
        /\ GetService(storage, resp.body.id, now).status = 200
        /\ GetService(storage, resp.body.id, now).body = resp.body

\* C11: under any interleaving of update_service(id, body) with concurrent
\* delete_service(id) and other update_service(id, ...) requests, a
\* successful update_service response carries a record with
\* is_deleted = false in which every field the body supplies has the value
\* this request wrote.
C11_UpdateAnswersOwnWrite ==
    (req.op = "update_service" /\ resp.status = 200) =>
        /\ resp.body.is_deleted = FALSE
        /\ \A k \in Supplied(req.payload) :
              resp.body[k] = (IF k \in NullableFields THEN req.payload[k]
                              ELSE req.payload[k][1])

\* C12: every dashboard_stats() response has
\* active_services <= total_services, also when create_service,
\* update_service and delete_service interleave with its queries.
C12_ActiveAtMostTotal ==
    (req.op = "get_dashboard_stats" /\ resp.status = 200) =>
        resp.body.active_services <= resp.body.total_services

====
